---------------------------- MODULE Spec2Model ----------------------------
(***************************************************************************)
(* A model of mp_blat.py: FastaIndex.end_pos, FastaFile.split (index,      *)
(* plan, text-mode copy of the blocks), the worker pool of mp_blat and its *)
(* merge of the per-partition result files.                                *)
(*                                                                         *)
(* Files are sequences of byte values.  A file on disk is a record         *)
(* [exists, data].  Offsets are 0-based as in the program; sequences are   *)
(* 1-based, so byte offset p is element p + 1.                             *)
(***************************************************************************)
EXTENDS Integers, Sequences, FiniteSets, TLC

(* ------------------------------ bounds -------------------------------- *)
MaxRec == 3
MaxUniformRec == 5
MaxLen == 2
MaxProc == 3
MaxExtra == 1

LineBasesSet == {1, 2}
Gaps == {0, 2}

(* -------------------------- program constants ------------------------- *)
\* b'\n', the line terminator readline() stops at
LF == 10
\* '\r', which a text-mode read translates (universal newlines)
CR == 13
\* the merge copies five header lines
HeaderLines == 5

VARIABLES
    pc,                 \* position in mp_blat / FastaFile.split
    err,                \* the exception that ended the call, "" if none
    num_proc,           \* num_proc of mp_blat = num_files of split
    samtools_bin_bound, \* does the global name samtools_bin resolve (line 65)
    fai_on_disk,        \* does <fasta>.fai exist
    fai,                \* the records of <fasta>.fai (as samtools writes them)
    index_file,         \* self.index_file is set (TRUE) or None (FALSE)
    source,             \* the bytes of the fasta file
    fa_idx_data,        \* the parsed index
    num_list,
    splice_pos,
    block_size,
    files,              \* the partition files written so far, in order
    fa_in_pos,          \* characters of fa_in consumed so far
    worker,             \* per partition: "queued", "running", "done"
    returncode,         \* per partition: exit code of its blat
    out_files,          \* per partition: the .psl result file
    output,             \* the combined output file
    res_start_pos,
    merge_i,            \* result files copied so far by the merge loop
    direct_out          \* output of the direct single-invocation path

vars == <<pc, err, num_proc, samtools_bin_bound, fai_on_disk, fai, index_file,
          source, fa_idx_data, num_list, splice_pos, block_size, files,
          fa_in_pos, worker, returncode, out_files, output, res_start_pos,
          merge_i, direct_out>>

(* ------------------------------ helpers ------------------------------- *)
Min(a, b) == IF a < b THEN a ELSE b

RECURSIVE SumSeq(_, _)
\* s[1] + ... + s[k]
SumSeq(s, k) == IF k <= 0 THEN 0 ELSE s[k] + SumSeq(s, k - 1)

RECURSIVE Concat(_, _)
\* s[1] \o ... \o s[k]
Concat(s, k) == IF k <= 0 THEN <<>> ELSE Concat(s, k - 1) \o s[k]

\* Python's seq[i] for a 0-based index i, negative counting from the end
PyIndex(seq, i) == IF i >= 0 THEN seq[i + 1] ELSE seq[Len(seq) + i + 1]

NoFile == [exists |-> FALSE, data |-> <<>>]
File(bytes) == [exists |-> TRUE, data |-> bytes]

(* ------------------------- FastaIndex.end_pos ------------------------- *)
end_pos(rec) ==
    LET num_lines == rec.length \div rec.line_bases
        r == rec.length % rec.line_bases
    IN  rec.offset + rec.length + (IF r > 0 THEN num_lines + 1 ELSE num_lines)

(* ------------------------- split: the plan ---------------------------- *)
\* the whole remainder given to the first partition
NumListRemainderFirst(n, num_files) ==
    [i \in 1..num_files |->
        (n \div num_files) + (IF i = 1 THEN n % num_files ELSE 0)]

\* lines 114-117: divmod, then one extra for each of the first `remainder`
NumList(n, num_files) ==
    [i \in 1..num_files |->
        (n \div num_files) + (IF i <= n % num_files THEN 1 ELSE 0)]

\* the cut taken before idx is advanced
SplicePosBeforeAdvance(idx_data, nums) ==
    [k \in 1..(Len(nums) - 1) |->
        end_pos(PyIndex(idx_data, -1 + SumSeq(nums, k - 1)))]

\* lines 119-124: idx starts at -1 and runs over num_list[:-1]
SplicePos(idx_data, nums) ==
    [k \in 1..(Len(nums) - 1) |->
        end_pos(PyIndex(idx_data, -1 + SumSeq(nums, k)))]

\* the last block closed at the last record's data without its line ends
BlockSizeNoLineEnds(idx_data, splice) ==
    LET last == PyIndex(idx_data, -1)
        ext == <<0>> \o splice \o <<last.offset + last.length>>
    IN  [i \in 1..(Len(ext) - 1) |-> ext[i + 1] - ext[i]]

\* lines 127-131: pairwise differences of [0] + splice_pos + [end_pos of last]
BlockSize(idx_data, splice) ==
    LET ext == <<0>> \o splice \o <<end_pos(PyIndex(idx_data, -1))>>
    IN  [i \in 1..(Len(ext) - 1) |-> ext[i + 1] - ext[i]]

(* --------------------- text-mode file objects ------------------------- *)
RECURSIVE DecodeFrom(_, _)
\* UTF-8 decoding: the pair C3 A9 is the one character U+00E9
DecodeFrom(b, i) ==
    IF i > Len(b) THEN <<>>
    ELSE IF b[i] = 195 /\ i < Len(b) /\ b[i + 1] = 169
         THEN <<233>> \o DecodeFrom(b, i + 2)
         ELSE <<b[i]>> \o DecodeFrom(b, i + 1)

RECURSIVE TranslateFrom(_, _)
\* universal newlines on input: "\r\n" and "\r" both read as "\n"
TranslateFrom(c, i) ==
    IF i > Len(c) THEN <<>>
    ELSE IF c[i] = CR
         THEN <<LF>> \o TranslateFrom(c, IF i < Len(c) /\ c[i + 1] = LF
                                         THEN i + 2 ELSE i + 1)
         ELSE <<c[i]>> \o TranslateFrom(c, i + 1)

\* line 140: open(self.original_file) is a text-mode stream of characters
TextOf(b) == TranslateFrom(DecodeFrom(b, 1), 1)

\* line 143: fa_in.read(bsize) returns at most bsize characters from pos
TextRead(chars, pos, n) ==
    IF n < 0 THEN SubSeq(chars, pos + 1, Len(chars))
    ELSE SubSeq(chars, pos + 1, Min(pos + n, Len(chars)))

RECURSIVE Encode(_)
\* line 142-143: fa_out.write encodes the characters ("\n" stays "\n" on POSIX)
Encode(c) ==
    IF c = <<>> THEN <<>>
    ELSE (IF Head(c) = 233 THEN <<195, 169>> ELSE <<Head(c)>>) \o Encode(Tail(c))

(* ------------------------------ inputs -------------------------------- *)
RECURSIVE BuildIndex(_, _, _, _)
\* the .fai records of k sequences laid out one after the other, each
\* preceded by a header line of `gap` bytes
BuildIndex(lens, lbs, gap, k) ==
    IF k = 0 THEN <<>>
    ELSE LET before == BuildIndex(lens, lbs, gap, k - 1)
             start == IF k = 1 THEN 0 ELSE end_pos(before[k - 1])
         IN  Append(before, [length |-> lens[k], offset |-> start + gap,
                             line_bases |-> lbs[k], line_width |-> lbs[k] + 1])

\* R equal records
UniformIndex(R, len, lb, gap) ==
    BuildIndex([k \in 1..R |-> len], [k \in 1..R |-> lb], gap, R)

\* the indexes tried: every layout of up to MaxRec records, and the layouts
\* of equal records up to MaxUniformRec records
Indexes ==
    UNION {{BuildIndex(lens, lbs, gap, R) :
                lens \in [1..R -> 0..MaxLen], lbs \in [1..R -> LineBasesSet],
                gap \in Gaps} : R \in 1..MaxRec}
    \cup UNION {{UniformIndex(R, len, lb, gap) :
                len \in 0..MaxLen, lb \in LineBasesSet, gap \in Gaps} :
                R \in 1..MaxUniformRec}

\* is 0-based offset p the last byte of a header line or of a sequence line
IsLineEnd(idx, p) ==
    \E r \in 1..Len(idx) :
        \/ p = idx[r].offset - 1 /\ (r = 1 \/ end_pos(idx[r - 1]) <= p)
        \/ /\ idx[r].offset <= p /\ p < end_pos(idx[r])
           /\ \/ (p - idx[r].offset + 1) % idx[r].line_width = 0
              \/ p = end_pos(idx[r]) - 1

\* a fasta file of n bytes laid out as idx says: "\n" at the line ends and
\* pairwise different bytes elsewhere
PlainFasta(idx, n) == [q \in 1..n |-> IF IsLineEnd(idx, q - 1) THEN LF ELSE 64 + q]

WithSpecial(b, kind, p) ==
    [q \in 1..Len(b) |->
        CASE kind = "cr" /\ q = p -> CR
          [] kind = "crlf" /\ q = p -> CR
          [] kind = "crlf" /\ q = p + 1 -> LF
          [] kind = "utf8" /\ q = p -> 195
          [] kind = "utf8" /\ q = p + 1 -> 169
          [] OTHER -> b[q]]

\* the fasta files tried for idx: plain, or with a carriage return or a
\* two-byte character at the start or at the end of the indexed extent
SourceFiles(idx, extras) ==
    LET e == end_pos(PyIndex(idx, -1))
    IN  UNION {{PlainFasta(idx, e + x)} \cup
               {WithSpecial(PlainFasta(idx, e + x), kind, p) :
                    kind \in {"cr", "crlf", "utf8"},
                    p \in {p \in {1, e - 1} : p >= 1 /\ p + 1 <= e + x}} :
               x \in extras}

(* ------------------------- FastaFile.split ---------------------------- *)
SplitUnchanged ==
    UNCHANGED <<num_proc, samtools_bin_bound, fai, source, worker, returncode,
                out_files, output, res_start_pos, merge_i, direct_out>>

\* lines 94, 71-76: has_index() finds <fasta>.fai
SplitHasIndex ==
    /\ pc = "split"
    /\ fai_on_disk
    /\ index_file' = TRUE
    /\ pc' = "plan"
    /\ UNCHANGED <<err, fai_on_disk, fa_idx_data, num_list, splice_pos,
                   block_size, files, fa_in_pos>>
    /\ SplitUnchanged

\* lines 94-101, 78-87: no index; samtools faidx is run and its exit code is
\* not looked at by split.  With index_file still None, open() at line 106
\* raises TypeError.
SplitCreateIndex ==
    /\ pc = "split"
    /\ ~fai_on_disk
    /\ \E rc \in {0, 1} :
          /\ fai_on_disk' = (rc = 0)
          /\ index_file' = (rc = 0)
          /\ pc' = IF rc = 0 THEN "plan" ELSE "error"
          /\ err' = IF rc = 0 THEN err ELSE "TypeError"
    /\ UNCHANGED <<fa_idx_data, num_list, splice_pos, block_size, files,
                   fa_in_pos>>
    /\ SplitUnchanged

\* lines 106-131: parse the index, compute num_list, splice_pos, block_size
SplitPlan ==
    /\ pc = "plan"
    /\ fa_idx_data' = fai
    /\ num_list' = NumList(Len(fai), num_proc)
    /\ splice_pos' = SplicePos(fai, num_list')
    /\ block_size' = BlockSize(fai, splice_pos')
    /\ pc' = "write"
    /\ UNCHANGED <<err, fai_on_disk, index_file, files, fa_in_pos>>
    /\ SplitUnchanged

\* lines 141-143, one iteration: the next partition file is written
SplitWrite ==
    /\ pc = "write"
    /\ Len(files) < num_proc
    /\ LET data == TextRead(TextOf(source), fa_in_pos,
                            block_size[Len(files) + 1])
       IN  /\ files' = Append(files, Encode(data))
           /\ fa_in_pos' = fa_in_pos + Len(data)
    /\ UNCHANGED <<pc, err, fai_on_disk, index_file, fa_idx_data, num_list,
                   splice_pos, block_size>>
    /\ SplitUnchanged

\* line 145: split returns
SplitReturn ==
    /\ pc = "write"
    /\ Len(files) = num_proc
    /\ pc' = "split_done"
    /\ UNCHANGED <<err, fai_on_disk, index_file, fa_idx_data, num_list,
                   splice_pos, block_size, files, fa_in_pos>>
    /\ SplitUnchanged

\* nothing has run yet
InitRest ==
    /\ err = ""
    /\ index_file = FALSE
    /\ fa_idx_data = <<>>
    /\ num_list = <<>>
    /\ splice_pos = <<>>
    /\ block_size = <<>>
    /\ files = <<>>
    /\ fa_in_pos = 0
    /\ worker = <<>>
    /\ returncode = <<>>
    /\ out_files = <<>>
    /\ output = NoFile
    /\ res_start_pos = 0
    /\ merge_i = 0
    /\ direct_out = NoFile

(* split called on a FastaFile with num_files in 1..MaxProc *)
InitSplit ==
    /\ pc = "split"
    /\ num_proc \in 1..MaxProc
    /\ samtools_bin_bound = TRUE
    /\ fai_on_disk = TRUE
    /\ fai \in Indexes
    /\ source \in SourceFiles(fai, 0..MaxExtra)
    /\ InitRest

NextSplit == SplitHasIndex \/ SplitPlan \/ SplitWrite \/ SplitReturn

SpecSplit == InitSplit /\ [][NextSplit]_vars

(* plan-level runs: the same split on a plain fasta file that ends at the   *)
(* end of its last record                                                   *)
InitPlan ==
    /\ pc = "split"
    /\ num_proc \in 1..MaxProc
    /\ samtools_bin_bound = TRUE
    /\ fai_on_disk = TRUE
    /\ fai \in Indexes
    /\ source = PlainFasta(fai, end_pos(PyIndex(fai, -1)))
    /\ InitRest

SpecPlan == InitPlan /\ [][NextSplit]_vars

(* --------------------------- result files ----------------------------- *)
RECURSIVE LineEnd(_, _)
\* res_in.readline() from offset pos: the offset after the line read
LineEnd(b, pos) ==
    IF pos >= Len(b) THEN pos
    ELSE IF b[pos + 1] = LF THEN pos + 1 ELSE LineEnd(b, pos + 1)

RECURSIVE AfterLines(_, _)
\* res_in.tell() after k calls of readline() from the start of the file
AfterLines(b, k) == IF k = 0 THEN 0 ELSE LineEnd(b, AfterLines(b, k - 1))

\* lines 189-191: seek(pos), then copy to the end of the file
CopyFrom(b, pos) == SubSeq(b, pos + 1, Len(b))

HeaderA == <<72, LF, 72, LF, 72, LF, 72, LF, 72, LF>>
HeaderB == <<72, 72, LF, 72, LF, 72, LF, 72, LF, 72, LF>>

\* what blat may leave at its output path when it exits 0: five header lines
\* (of one byte length or another) and zero or more result lines
OkResults ==
    {File(HeaderA \o <<97, LF>>), File(HeaderB \o <<98, 98, LF>>), File(HeaderA)}

\* and when it exits non-zero: no file, or a truncated one
FailResults == {NoFile, File(<<72, LF>>)}

\* blat as a deterministic function of its input bytes: a five-line header,
\* then the input echoed as the body
BlatEcho(bytes) == HeaderA \o bytes \o <<LF>>

(* ------------------------------ mp_blat ------------------------------- *)
\* the merge entered as soon as one call has completed
AnyCompleted == \E i \in 1..Len(worker) : worker[i] = "done"

\* line 177: leaving the with block is executor.shutdown(wait=True)
AllCompleted == \A i \in 1..Len(worker) : worker[i] = "done"

\* line 173 has returned: every partition file is written and closed
AllPartitionsWritten == pc = "split_done"

PlanUnchanged ==
    UNCHANGED <<fai_on_disk, fai, index_file, source, fa_idx_data, num_list,
                splice_pos, block_size, files, fa_in_pos, samtools_bin_bound,
                num_proc, direct_out>>

\* lines 164-165, 193: num_proc == 1, one blat on the whole file; its
\* CompletedProcess is dropped
DirectBlat ==
    /\ pc = "start"
    /\ num_proc = 1
    /\ \E rc \in {0, 1} :
          /\ returncode' = <<rc>>
          /\ output' \in (IF rc = 0 THEN OkResults ELSE FailResults)
    /\ pc' = "done"
    /\ UNCHANGED <<err, worker, out_files, res_start_pos, merge_i>>
    /\ PlanUnchanged

\* lines 170-172, 62-69: FastaFile.__init__ reads the name samtools_bin,
\* which is no parameter of __init__ and no global the module binds
Construct ==
    /\ pc = "start"
    /\ num_proc # 1
    /\ IF samtools_bin_bound
       THEN pc' = "split" /\ err' = err
       ELSE pc' = "error" /\ err' = "NameError"
    /\ UNCHANGED <<worker, returncode, out_files, output, res_start_pos, merge_i>>
    /\ PlanUnchanged

\* lines 175-178: executor.map submits one blat per partition file
Dispatch ==
    /\ AllPartitionsWritten
    /\ worker' = [i \in 1..num_proc |-> "queued"]
    /\ returncode' = [i \in 1..num_proc |-> 0]
    /\ out_files' = [i \in 1..num_proc |-> NoFile]
    /\ pc' = "pool"
    /\ UNCHANGED <<err, output, res_start_pos, merge_i>>
    /\ PlanUnchanged

\* a pool process takes the next call; at most num_proc run at a time
WorkerStart(i) ==
    /\ pc = "pool"
    /\ worker[i] = "queued"
    /\ Cardinality({j \in 1..Len(worker) : worker[j] = "running"}) < num_proc
    /\ worker' = [worker EXCEPT ![i] = "running"]
    /\ UNCHANGED <<pc, err, returncode, out_files, output, res_start_pos, merge_i>>
    /\ PlanUnchanged

\* lines 26-36: sp.run returns whatever blat's exit code is
WorkerFinish(i) ==
    /\ pc = "pool"
    /\ worker[i] = "running"
    /\ \E rc \in {0, 1} :
          /\ returncode' = [returncode EXCEPT ![i] = rc]
          /\ \E f \in (IF rc = 0 THEN OkResults ELSE FailResults) :
                out_files' = [out_files EXCEPT ![i] = f]
    /\ worker' = [worker EXCEPT ![i] = "done"]
    /\ UNCHANGED <<pc, err, output, res_start_pos, merge_i>>
    /\ PlanUnchanged

\* blat as the deterministic function BlatEcho of its input file
WorkerFinishEcho(i) ==
    /\ pc = "pool"
    /\ worker[i] = "running"
    /\ returncode' = [returncode EXCEPT ![i] = 0]
    /\ out_files' = [out_files EXCEPT ![i] = File(BlatEcho(files[i]))]
    /\ worker' = [worker EXCEPT ![i] = "done"]
    /\ UNCHANGED <<pc, err, output, res_start_pos, merge_i>>
    /\ PlanUnchanged

\* line 177-178: the with block is left once every call has completed; the
\* iterator executor.map returned is never read
PoolShutdown ==
    /\ pc = "pool"
    /\ AllCompleted
    /\ pc' = "merge_header"
    /\ UNCHANGED <<err, worker, returncode, out_files, output, res_start_pos, merge_i>>
    /\ PlanUnchanged

\* lines 180-185: the output is created, then five lines of out_files[0]
MergeHeader ==
    /\ pc = "merge_header"
    /\ IF out_files[1].exists
       THEN /\ res_start_pos' = AfterLines(out_files[1].data, HeaderLines)
            /\ output' = File(SubSeq(out_files[1].data, 1, res_start_pos'))
            /\ pc' = "merge_body"
            /\ err' = err
       ELSE /\ output' = File(<<>>)
            /\ pc' = "error"
            /\ err' = "FileNotFoundError"
            /\ UNCHANGED res_start_pos
    /\ UNCHANGED <<worker, returncode, out_files, merge_i>>
    /\ PlanUnchanged

\* lines 188-191, one iteration: the next result file from res_start_pos on
MergeBody ==
    /\ pc = "merge_body"
    /\ merge_i < Len(out_files)
    /\ IF out_files[merge_i + 1].exists
       THEN /\ output' = File(output.data \o
                              CopyFrom(out_files[merge_i + 1].data, res_start_pos))
            /\ merge_i' = merge_i + 1
            /\ UNCHANGED <<pc, err>>
       ELSE /\ pc' = "error"
            /\ err' = "FileNotFoundError"
            /\ UNCHANGED <<output, merge_i>>
    /\ UNCHANGED <<worker, returncode, out_files, res_start_pos>>
    /\ PlanUnchanged

\* line 193: the output is closed and mp_blat returns
MergeReturn ==
    /\ pc = "merge_body"
    /\ merge_i = Len(out_files)
    /\ pc' = "done"
    /\ UNCHANGED <<err, worker, returncode, out_files, output, res_start_pos, merge_i>>
    /\ PlanUnchanged

\* the direct path with blat as BlatEcho, kept beside the pool path
DirectEcho ==
    /\ ~direct_out.exists
    /\ direct_out' = File(BlatEcho(source))
    /\ UNCHANGED <<pc, err, num_proc, samtools_bin_bound, fai_on_disk, fai,
                   index_file, source, fa_idx_data, num_list, splice_pos,
                   block_size, files, fa_in_pos, worker, returncode, out_files,
                   output, res_start_pos, merge_i>>

\* mp_blat is called
Init ==
    /\ pc = "start"
    /\ num_proc \in 1..MaxProc
    /\ samtools_bin_bound \in BOOLEAN
    /\ fai_on_disk \in BOOLEAN
    /\ fai \in {UniformIndex(R, 2, 2, 2) : R \in 1..MaxRec}
    /\ source = PlainFasta(fai, end_pos(PyIndex(fai, -1)))
    /\ InitRest

Pool ==
    \/ Dispatch
    \/ \E i \in 1..MaxProc : i <= Len(worker) /\ WorkerStart(i)
    \/ PoolShutdown

Merge == MergeHeader \/ MergeBody \/ MergeReturn

Next ==
    \/ DirectBlat
    \/ Construct
    \/ SplitCreateIndex
    \/ NextSplit
    \/ Pool
    \/ \E i \in 1..MaxProc : i <= Len(worker) /\ WorkerFinish(i)
    \/ Merge

Spec == Init /\ [][Next]_vars

(* the pool path forced to one partition, beside the direct path, both    *)
(* with blat as BlatEcho                                                   *)
InitEquiv ==
    /\ pc = "split"
    /\ num_proc = 1
    /\ samtools_bin_bound = TRUE
    /\ fai_on_disk = TRUE
    /\ fai \in Indexes
    /\ source \in SourceFiles(fai, {0})
    /\ InitRest

NextEquiv ==
    \/ NextSplit
    \/ Pool
    \/ \E i \in 1..MaxProc : i <= Len(worker) /\ WorkerFinishEcho(i)
    \/ Merge
    \/ DirectEcho

SpecEquiv == InitEquiv /\ [][NextEquiv]_vars

(* ============================== claims ================================ *)
\* split has computed its plan
Planned == pc \in {"write", "split_done"}

\* the number of records in partitions 1..k
RecordsUpTo(k) == SumSeq(num_list, k)

\* C1: for every contiguous index of R >= 1 records, every P with
\* 1 <= P <= R and every source file of at least end_pos(last record)
\* bytes, split writes P partition files whose concatenation in partition
\* order is exactly the first end_pos(last record) bytes of the source.
C1_ConcatenationIsIndexedExtent ==
    (pc = "split_done" /\ num_proc <= Len(fa_idx_data))
    => /\ Len(files) = num_proc
       /\ Concat(files, Len(files))
            = SubSeq(source, 1, end_pos(fa_idx_data[Len(fa_idx_data)]))

\* C2: for any index of R records and any P with 1 <= P <= R, there are
\* exactly P block sizes and they sum to end_pos of the last record.
C2_BlockSizesSumToExtent ==
    (Planned /\ num_proc <= Len(fa_idx_data))
    => /\ Len(block_size) = num_proc
       /\ SumSeq(block_size, Len(block_size))
            = end_pos(fa_idx_data[Len(fa_idx_data)])

C2_Witness ==
    /\ pc = "split_done"
    /\ num_proc = 3
    /\ Len(fa_idx_data) = 3
    /\ block_size[1] > 0
    /\ block_size[1] # block_size[2]
    /\ block_size[3] > block_size[2]
    /\ files = <<SubSeq(source, 1, splice_pos[1]),
                 SubSeq(source, splice_pos[1] + 1, splice_pos[2]),
                 SubSeq(source, splice_pos[2] + 1, Len(source))>>

\* C3: for every R >= 1 and P >= 1, partition i (0-based) gets R div P
\* records, plus one if i < R mod P; the counts sum to R, never increase
\* with i, and differ by at most one.
C3_BalancedCounts ==
    Planned =>
        LET R == Len(fa_idx_data)
            P == num_proc
        IN  /\ Len(num_list) = P
            /\ \A i \in 0..(P - 1) :
                  num_list[i + 1] = (R \div P) + (IF i < R % P THEN 1 ELSE 0)
            /\ SumSeq(num_list, P) = R
            /\ \A i \in 1..(P - 1) : num_list[i] >= num_list[i + 1]
            /\ \A i, j \in 1..P : num_list[i] - num_list[j] <= 1

C3_Witness ==
    /\ pc = "split_done"
    /\ Len(fa_idx_data) = 5
    /\ num_proc = 3
    /\ num_list = <<2, 2, 1>>
    /\ \A i \in 1..3 : block_size[i] > 0

\* C4: for every contiguous index and every P with 1 <= P <= R, each cut
\* position is end_pos of the last record of the partition before the cut,
\* no cut lies strictly inside a record (offset_r < c < end_pos_r), and the
\* cuts never decrease.
C4_CutsAtRecordEnds ==
    (Planned /\ num_proc <= Len(fa_idx_data))
    => /\ Len(splice_pos) = num_proc - 1
       /\ \A k \in 1..Len(splice_pos) :
             /\ splice_pos[k] = end_pos(fa_idx_data[RecordsUpTo(k)])
             /\ \A r \in 1..Len(fa_idx_data) :
                   ~(fa_idx_data[r].offset < splice_pos[k]
                     /\ splice_pos[k] < end_pos(fa_idx_data[r]))
       /\ \A k \in 1..(Len(splice_pos) - 1) : splice_pos[k] <= splice_pos[k + 1]

C4_Witness ==
    /\ pc = "split_done"
    /\ num_proc = 2
    /\ Len(fa_idx_data) = 3
    /\ splice_pos = <<end_pos(fa_idx_data[2])>>
    /\ end_pos(fa_idx_data[2]) > fa_idx_data[2].offset + 1
    /\ end_pos(fa_idx_data[3]) > fa_idx_data[3].offset + 1

\* C5: when num_partitions exceeds the number of index records the split is
\* rejected with InvalidPartitionCountError before any file I/O: no
\* partition file is created, no invocation is dispatched, and no block of
\* size 0 is produced or scheduled.  (The errors of a FastaFile that cannot
\* be constructed and of an index that cannot be made are left aside.)
C5_OversizedCountRejected ==
    (num_proc > Len(fai))
    => /\ files = <<>>
       /\ worker = <<>>
       /\ \A i \in 1..Len(block_size) : block_size[i] # 0
       /\ pc \in {"start", "split", "plan", "error"}
       /\ (pc = "error" =>
             err \in {"InvalidPartitionCountError", "NameError", "TypeError"})

\* does the file hold at least five lines
HasFiveLines(b) == AfterLines(b, HeaderLines - 1) < Len(b)

\* the bytes of a result file after its own first five lines
BodyOf(b) == SubSeq(b, AfterLines(b, HeaderLines) + 1, Len(b))

\* C6: for result files of at least 5 lines each (header blocks of any byte
\* length) and any completion order, the combined output is the first 5
\* lines of the first result file followed by, in partition order, each
\* result file's bytes after its own first 5 lines.
C6_MergeIsHeaderThenBodies ==
    (/\ pc = "done"
     /\ num_proc # 1
     /\ \A i \in 1..Len(out_files) :
           out_files[i].exists /\ HasFiveLines(out_files[i].data))
    => output.data
         = SubSeq(out_files[1].data, 1, AfterLines(out_files[1].data, HeaderLines))
           \o Concat([i \in 1..Len(out_files) |-> BodyOf(out_files[i].data)],
                     Len(out_files))

\* C7: if any of the parallel invocations exits non-zero, mp_blat fails as a
\* whole and the combined output is never written.
C7_FailedInvocationAbortsMerge ==
    (num_proc # 1 /\ \E i \in 1..Len(worker) :
                        worker[i] = "done" /\ returncode[i] # 0)
    => /\ ~output.exists
       /\ pc \notin {"merge_body", "done"}

\* C8: with num_proc >= 2, the merge reads no result file and writes no
\* byte of the output before all P invocations have completed, and no
\* invocation starts before all P partition files are written.
C8_StageOrder ==
    num_proc >= 2 =>
        /\ (pc \in {"merge_header", "merge_body", "done"} \/ output.exists)
           => /\ Len(worker) = num_proc
              /\ \A i \in 1..num_proc : worker[i] = "done"
        /\ (\E i \in 1..Len(worker) : worker[i] \in {"running", "done"})
           => /\ Len(files) = num_proc
              /\ \A i \in 1..num_proc : Len(files[i]) = block_size[i]

C8_Witness ==
    /\ pc = "done"
    /\ num_proc = 3
    /\ output.exists
    /\ Len(output.data) > Len(HeaderA)
    /\ \A i \in 1..3 : worker[i] = "done"

\* C9: with blat a deterministic function of its input bytes and a source
\* file that ends at end_pos of its last record, the output of the direct
\* path is byte-identical to the output of split + pool + merge run with
\* one partition.
C9_DirectEqualsOnePartition ==
    (pc = "done" /\ num_proc = 1 /\ direct_out.exists)
    => output = direct_out

\* C10: every call with num_proc >= 2, an existing index of R >= num_proc
\* records and all invocations exiting 0 passes through split, dispatch and
\* merge and ends normally; it never stops in an error state.
C10_NoErrorStop ==
    (/\ num_proc >= 2
     /\ fai_on_disk
     /\ Len(fai) >= num_proc
     /\ \A i \in 1..Len(returncode) : returncode[i] = 0)
    => pc # "error"

=============================================================================
